---- MODULE Spec2Model ----
(***************************************************************************)
(* Chronicles: the timeline browser's view state (App), its event filter   *)
(* and its detail view (TimelineModal) with the requests to the AI         *)
(* service.  Strings are sequences of one-character strings, so that       *)
(* trim(), toLowerCase() and includes() are computed character by          *)
(* character as JavaScript computes them.                                  *)
(***************************************************************************)
EXTENDS Integers, Sequences, FiniteSets, TLC

VARIABLES
    MOCK_EVENTS,        \* the dataset imported from services/mockData
    density,            \* useState<number>(25)
    searchQuery,        \* useState<string>("")
    selectedEvent,      \* useState<HistoricalEvent | null>(null), held by id
    activeLensId,       \* useState<string>('all')
    activeCustomTag,    \* useState<string | null>(null)
    showLensMenu,       \* useState<boolean>(false)
    tagSearch,          \* useState<string>(""), the text of the tag search box
    isTagDropdownOpen,  \* useState(false)
    visibleEvents,      \* useMemo result: the filtered list
    eraChildCounts,     \* useMemo result: Record<string, number>
    shuffleTimers,      \* ids of the targets of the setTimeout callbacks not yet run
    apiKey,             \* geminiService: const apiKey = process.env.API_KEY
    aiSummary,          \* TimelineModal: useState<string>('')
    summaryLoading,     \* TimelineModal: useState(false)
    chatSession,        \* TimelineModal: useState<Chat | null>(null)
    chatHistory,        \* TimelineModal: useState<ChatMessage[]>([])
    chatInput,          \* TimelineModal: useState('')
    chatLoading,        \* TimelineModal: useState(false)
    generatedImage,     \* TimelineModal: useState<string | null>(null)
    imageLoading,       \* TimelineModal: useState(false)
    pending             \* the handlers of TimelineModal suspended at an await

vars == <<MOCK_EVENTS, density, searchQuery, selectedEvent, activeLensId,
          activeCustomTag, showLensMenu, tagSearch, isTagDropdownOpen,
          visibleEvents, eraChildCounts, shuffleTimers,
          apiKey, aiSummary, summaryLoading, chatSession, chatHistory,
          chatInput, chatLoading, generatedImage, imageLoading, pending>>

controls == <<density, searchQuery, activeLensId, activeCustomTag>>

appOnly == <<selectedEvent, showLensMenu, tagSearch, isTagDropdownOpen,
             shuffleTimers>>

\* the hooks of TimelineModal, the credential of the service and the
\* requests in flight
modal == <<apiKey, aiSummary, summaryLoading, chatSession, chatHistory,
           chatInput, chatLoading, generatedImage, imageLoading, pending>>

-----------------------------------------------------------------------------
(* Bounds of the model.                                                    *)

\* densities handed to the filter range over 0 .. MaxDensity
MaxDensity == 101

\* a dataset holds MaxEvents events
MaxEvents == 3

\* at most MaxTimers shuffle timeouts are pending at once
MaxTimers == 1

\* at most MaxRequests calls of one handler of TimelineModal are suspended at
\* once ("Regenerate" can be pressed again and again) while the other panels
\* are as the modal's effect left them
MaxRequests == 2

\* at most MaxPending calls of TimelineModal's handlers are suspended at once
\* when more than one panel is in use
MaxPending == 1

\* a message is sent only while the chat history, with the message and its
\* reply, stays within MaxMessages messages
MaxMessages == 3

-----------------------------------------------------------------------------
(* JavaScript values and string functions.                                 *)

null == "null"
undefined == "undefined"

ERA == "ERA"
EVENT == "EVENT"
SUB_EVENT == "SUB_EVENT"

UpperCase ==
    <<"A","B","C","D","E","F","G","H","I","J","K","L","M",
      "N","O","P","Q","R","S","T","U","V","W","X","Y","Z">>

LowerCase ==
    <<"a","b","c","d","e","f","g","h","i","j","k","l","m",
      "n","o","p","q","r","s","t","u","v","w","x","y","z">>

WhiteSpace == {" ", "\t", "\n", "\r"}

UpperToLower ==
    [c \in {UpperCase[i] : i \in 1..Len(UpperCase)} |->
        LowerCase[CHOOSE i \in 1..Len(UpperCase) : UpperCase[i] = c]]

LowerChar(c) == IF c \in DOMAIN UpperToLower THEN UpperToLower[c] ELSE c

\* String.prototype.toLowerCase
ToLowerCase(s) == [i \in 1..Len(s) |-> LowerChar(s[i])]

\* String.prototype.trim
Trim(s) ==
    LET solid == {i \in 1..Len(s) : s[i] \notin WhiteSpace}
    IN  IF solid = {} THEN <<>>
        ELSE SubSeq(s, CHOOSE i \in solid : \A j \in solid : i <= j,
                       CHOOSE i \in solid : \A j \in solid : j <= i)

\* String.prototype.includes
Includes(s, q) ==
    \E i \in 0..(Len(s) - Len(q)) : SubSeq(s, i + 1, i + Len(q)) = q

\* Array.prototype.includes
ArrayIncludes(a, x) == \E i \in 1..Len(a) : a[i] = x

\* truthiness of a string | null | undefined
Truthy(v) == v # null /\ v # undefined /\ v # ""

-----------------------------------------------------------------------------
(* Configuration.                                                          *)

LENSES ==
    << [id |-> "all", tags |-> <<>>],
       [id |-> "cosmos",
        tags |-> <<"Cosmic", "Earth", "Space", "Biology", "Prehistory">>],
       [id |-> "humanity",
        tags |-> <<"Politics", "War", "Society", "Law", "Government", "Rome",
                   "Greece", "UK", "USA", "France", "China", "Japan",
                   "Russia", "History", "Disaster">>],
       [id |-> "innovation",
        tags |-> <<"Technology", "Science", "Industry", "Aviation", "Mobile",
                   "AI", "Internet", "Space", "Health", "Finance",
                   "Innovation", "Physics">>],
       [id |-> "culture",
        tags |-> <<"Art", "Religion", "Literature", "Education",
                   "Philosophy", "Culture", "Architecture">>] >>

ZOOM_LEVELS ==
    << [value |-> 0,   minImportance |-> 9],
       [value |-> 25,  minImportance |-> 8],
       [value |-> 50,  minImportance |-> 7],
       [value |-> 75,  minImportance |-> 6],
       [value |-> 100, minImportance |-> 1] >>

\* mutant: an unknown id resolves to the last lens of the catalog
ActiveLens_LastLens(lensId) ==
    IF \E i \in 1..Len(LENSES) : LENSES[i].id = lensId
    THEN LENSES[CHOOSE i \in 1..Len(LENSES) :
                    /\ LENSES[i].id = lensId
                    /\ \A j \in 1..(i - 1) : LENSES[j].id # lensId]
    ELSE LENSES[Len(LENSES)]

\* const activeLens = LENSES.find(l => l.id === activeLensId) || LENSES[0]
ActiveLens(lensId) ==
    IF \E i \in 1..Len(LENSES) : LENSES[i].id = lensId
    THEN LENSES[CHOOSE i \in 1..Len(LENSES) :
                    /\ LENSES[i].id = lensId
                    /\ \A j \in 1..(i - 1) : LENSES[j].id # lensId]
    ELSE LENSES[1]

-----------------------------------------------------------------------------
(* The dataset.  MOCK_EVENTS is imported from services/mockData and never   *)
(* written.  The datasets considered are the windows of MaxEvents          *)
(* consecutive events of the pool below, whose records follow the          *)
(* scenarios of the specification.  Ids are unique in the pool, hence in   *)
(* every dataset.  The pool has an ERA without children, ERAs with         *)
(* children, a child of a non-ERA event and a parentId naming no event.    *)

Prehistory ==
    [id |-> "prehistory", type |-> ERA,
     title |-> <<"P","r","e","h","i","s","t","o","r","y">>,
     description |-> <<"S","t","o","n","e">>,
     yearDisplay |-> <<"9","0","0","0"," ","B","C">>,
     importance |-> 4, tags |-> <<"History">>,
     parentId |-> undefined]

Antiquity ==
    [id |-> "antiquity", type |-> ERA,
     title |-> <<"A","n","t","i","q","u","i","t","y">>,
     description |-> <<"O","l","d"," ","w","o","r","l","d">>,
     yearDisplay |-> <<"3","0","0","0"," ","B","C">>,
     importance |-> 10, tags |-> <<"History">>,
     parentId |-> undefined]

Bronze ==
    [id |-> "bronze", type |-> EVENT,
     title |-> <<"B","r","o","n","z","e">>,
     description |-> <<"M","e","t","a","l">>,
     yearDisplay |-> <<"2","0","0","0"," ","B","C">>,
     importance |-> 5, tags |-> <<"Technology">>,
     parentId |-> "antiquity"]

FallOfRome ==
    [id |-> "fall", type |-> EVENT,
     title |-> <<"F","a","l","l"," ","o","f"," ","R","o","m","e">>,
     description |-> <<"E","n","d">>,
     yearDisplay |-> <<"4","7","6">>,
     importance |-> 9, tags |-> <<"Rome", "War">>,
     parentId |-> "antiquity"]

Sack ==
    [id |-> "sack", type |-> SUB_EVENT,
     title |-> <<"S","a","c","k">>,
     description |-> <<"L","o","o","t">>,
     yearDisplay |-> <<"A","D"," ","4","1","0">>,
     importance |-> 6, tags |-> <<>>,
     parentId |-> "fall"]

Atom ==
    [id |-> "atom", type |-> SUB_EVENT,
     title |-> <<"A","t","o","m">>,
     description |-> <<"L","a","b"," ","i","n"," ","R","O","M","E">>,
     yearDisplay |-> <<"1","9","0","5">>,
     importance |-> 1, tags |-> <<"Physics", "Science">>,
     parentId |-> "modern"]

Modern ==
    [id |-> "modern", type |-> ERA,
     title |-> <<"M","o","d","e","r","n">>,
     description |-> <<"N","o","w">>,
     yearDisplay |-> <<"1","9","0","0">>,
     importance |-> 3, tags |-> <<"Physics">>,
     parentId |-> undefined]

Probe ==
    [id |-> "probe", type |-> EVENT,
     title |-> <<"P","r","o","b","e">>,
     description |-> <<"F","a","r">>,
     yearDisplay |-> <<"1","9","7","7">>,
     importance |-> 8, tags |-> <<"Space">>,
     parentId |-> "modern"]

Founding ==
    [id |-> "founding", type |-> EVENT,
     title |-> <<"R","o","m","e"," ","f","o","u","n","d","e","d">>,
     description |-> <<"C","i","t","y">>,
     yearDisplay |-> <<"7","5","3"," ","B","C">>,
     importance |-> 7, tags |-> <<"physics">>,
     parentId |-> "ghost"]

Pool ==
    <<Prehistory, Antiquity, Bronze, FallOfRome, Sack, Atom, Modern, Probe,
      Founding>>

Datasets ==
    {SubSeq(Pool, i, i + MaxEvents - 1) : i \in 1..(Len(Pool) - MaxEvents + 1)}

-----------------------------------------------------------------------------
(* The filter: App's useMemo over [density, searchQuery, activeLens,       *)
(* activeCustomTag].                                                       *)

\* mutant: the bounds of the steps taken strictly
ImportanceThreshold_StrictBounds(d) ==
    IF d > 100 THEN 1
    ELSE IF d > 75 THEN 6
    ELSE IF d > 50 THEN 7
    ELSE IF d > 25 THEN 8
    ELSE 9

\* mutant: the cutoffs of the two middle steps exchanged
ImportanceThreshold_SwappedSteps(d) ==
    IF d >= 100 THEN 1
    ELSE IF d >= 75 THEN 7
    ELSE IF d >= 50 THEN 6
    ELSE IF d >= 25 THEN 8
    ELSE 9

\* let importanceThreshold = 9; if (density >= 100) ... else ...
ImportanceThreshold(d) ==
    IF d >= 100 THEN 1
    ELSE IF d >= 75 THEN 6
    ELSE IF d >= 50 THEN 7
    ELSE IF d >= 25 THEN 8
    ELSE 9

\* const matchesSearch = title/description/yearDisplay .toLowerCase().includes(query)
MatchesSearch(event, query) ==
    \/ Includes(ToLowerCase(event.title), query)
    \/ Includes(ToLowerCase(event.description), query)
    \/ Includes(ToLowerCase(event.yearDisplay), query)

\* mutant: ERAs are let through the search step
PassesSearch_ErasExempt(event, sq) ==
    IF Len(Trim(sq)) > 0 /\ event.type # ERA
    THEN MatchesSearch(event, ToLowerCase(sq))
    ELSE TRUE

\* if (searchQuery.trim().length > 0) { const query = searchQuery.toLowerCase(); ... }
PassesSearch(event, sq) ==
    IF Len(Trim(sq)) > 0
    THEN MatchesSearch(event, ToLowerCase(sq))
    ELSE TRUE

\* mutant: the lens filter is applied under a custom tag as well
PassesTagLens_LensAlso(event, lens, tag) ==
    /\ Truthy(tag) => ArrayIncludes(event.tags, tag)
    /\ Len(lens.tags) > 0 =>
          \E i \in 1..Len(event.tags) : ArrayIncludes(lens.tags, event.tags[i])

\* if (activeCustomTag) {...} else if (activeLens.tags.length > 0) {...}
PassesTagLens(event, lens, tag) ==
    IF Truthy(tag)
    THEN ~ \/ (~ArrayIncludes(event.tags, tag) /\ event.type # ERA)
           \/ (event.type = ERA /\ ~ArrayIncludes(event.tags, tag))
    ELSE IF Len(lens.tags) > 0
    THEN \E i \in 1..Len(event.tags) : ArrayIncludes(lens.tags, event.tags[i])
    ELSE TRUE

\* mutant: the gate without the exemption of ERAs
PassesImportance_NoEraExemption(event, threshold) ==
    event.importance >= threshold

\* if (event.type === EventType.ERA) return true; return event.importance >= importanceThreshold
PassesImportance(event, threshold) ==
    IF event.type = ERA THEN TRUE ELSE event.importance >= threshold

\* mutant: an event that matched the custom tag skips the gate
KeepEvent_TagSkipsGate(event, d, sq, lens, tag) ==
    IF ~PassesSearch(event, sq) THEN FALSE
    ELSE IF ~PassesTagLens(event, lens, tag) THEN FALSE
    ELSE IF Truthy(tag) THEN TRUE
    ELSE PassesImportance(event, ImportanceThreshold(d))

\* the callback of MOCK_EVENTS.filter
KeepEvent(event, d, sq, lens, tag) ==
    IF ~PassesSearch(event, sq) THEN FALSE
    ELSE IF ~PassesTagLens(event, lens, tag) THEN FALSE
    ELSE PassesImportance(event, ImportanceThreshold(d))

\* mutant: the kept events in reverse order
Filtered_Reversed(events, d, sq, lens, tag) ==
    LET keep(e) == KeepEvent(e, d, sq, lens, tag)
        kept == SelectSeq(events, keep)
    IN  [i \in 1..Len(kept) |-> kept[Len(kept) + 1 - i]]

\* const filtered = MOCK_EVENTS.filter(...)
Filtered(events, d, sq, lens, tag) ==
    LET keep(e) == KeepEvent(e, d, sq, lens, tag)
    IN  SelectSeq(events, keep)

\* The second variant of App in the source derives the cutoff by a formula
\* and is otherwise the same filter.  10 - density / 10 is a fraction unless
\* the density is a multiple of ten; it is kept in tenths.

\* mutant: the step table in place of the formula
ImportanceThresholdLinearTenths_Stepped(d) == 10 * ImportanceThreshold(d)

\* const importanceThreshold = 10 - (density / 10)
ImportanceThresholdLinearTenths(d) == 100 - d

\* if (event.type === EventType.ERA) return true;
\* return event.importance >= importanceThreshold
PassesImportanceLinear(event, d) ==
    IF event.type = ERA THEN TRUE
    ELSE 10 * event.importance >= ImportanceThresholdLinearTenths(d)

\* the callback of MOCK_EVENTS.filter in the second variant
KeepEventLinear(event, d, sq, lens, tag) ==
    IF ~PassesSearch(event, sq) THEN FALSE
    ELSE IF ~PassesTagLens(event, lens, tag) THEN FALSE
    ELSE PassesImportanceLinear(event, d)

\* const visibleEvents = useMemo(() => MOCK_EVENTS.filter(...)) in the second
\* variant
FilteredLinear(events, d, sq, lens, tag) ==
    LET keep(e) == KeepEventLinear(e, d, sq, lens, tag)
    IN  SelectSeq(events, keep)

\* mutant: every child counted, visible or not
HiddenCount_AllChildren(events, filtered, era) ==
    Cardinality({i \in 1..Len(events) : events[i].parentId = era.id})

\* allChildren.filter(child => !visibleChildIds.has(child.id)).length
HiddenCount(events, filtered, era) ==
    LET visibleChildIds == {filtered[i].id : i \in 1..Len(filtered)}
    IN  Cardinality({i \in 1..Len(events) :
                        /\ events[i].parentId = era.id
                        /\ events[i].id \notin visibleChildIds})

\* mutant: a count of 0 is recorded too
EraChildCounts_KeepsZero(events, filtered, threshold) ==
    LET keys == IF threshold > 1
                THEN {filtered[i].id : i \in
                        {k \in 1..Len(filtered) : filtered[k].type = ERA}}
                ELSE {}
    IN  [id \in keys |->
            HiddenCount(events, filtered,
                filtered[CHOOSE k \in 1..Len(filtered) : filtered[k].id = id])]

\* mutant: counting is not skipped at threshold 1
EraChildCounts_NoCutoffSkip(events, filtered, threshold) ==
    LET keys == {filtered[i].id : i \in
                    {k \in 1..Len(filtered) :
                        /\ filtered[k].type = ERA
                        /\ HiddenCount(events, filtered, filtered[k]) > 0}}
    IN  [id \in keys |->
            HiddenCount(events, filtered,
                filtered[CHOOSE k \in 1..Len(filtered) : filtered[k].id = id])]

\* mutant: an entry for every visible event with hidden children, ERA or not
EraChildCounts_AnyParent(events, filtered, threshold) ==
    LET keys == IF threshold > 1
                THEN {filtered[i].id : i \in
                        {k \in 1..Len(filtered) :
                            HiddenCount(events, filtered, filtered[k]) > 0}}
                ELSE {}
    IN  [id \in keys |->
            HiddenCount(events, filtered,
                filtered[CHOOSE k \in 1..Len(filtered) : filtered[k].id = id])]

\* const counts = {}; if (importanceThreshold > 1) filtered.forEach(...)
EraChildCounts(events, filtered, threshold) ==
    LET keys == IF threshold > 1
                THEN {filtered[i].id : i \in
                        {k \in 1..Len(filtered) :
                            /\ filtered[k].type = ERA
                            /\ HiddenCount(events, filtered, filtered[k]) > 0}}
                ELSE {}
    IN  [id \in keys |->
            HiddenCount(events, filtered,
                filtered[CHOOSE k \in 1..Len(filtered) : filtered[k].id = id])]

-----------------------------------------------------------------------------
(* Initial state: a dataset and the useState defaults, rendered once.      *)

\* the useState defaults of App, rendered once
InitApp ==
    /\ density = 25
    /\ searchQuery = <<>>
    /\ selectedEvent = null
    /\ activeLensId = "all"
    /\ activeCustomTag = null
    /\ showLensMenu = FALSE
    /\ tagSearch = <<>>
    /\ isTagDropdownOpen = FALSE
    /\ shuffleTimers = <<>>
    /\ visibleEvents =
         Filtered(MOCK_EVENTS, density, searchQuery, ActiveLens(activeLensId),
                  activeCustomTag)
    /\ eraChildCounts =
         EraChildCounts(MOCK_EVENTS, visibleEvents,
                        ImportanceThreshold(density))

\* the useState defaults of TimelineModal; '' and null are the empty tuple,
\* no request is in flight
InitTimelineModal ==
    /\ aiSummary = <<>>
    /\ summaryLoading = FALSE
    /\ chatSession = null
    /\ chatHistory = <<>>
    /\ chatInput = <<>>
    /\ chatLoading = FALSE
    /\ generatedImage = <<>>
    /\ imageLoading = FALSE
    /\ pending = <<>>

\* App and its filter read no credential: they are followed in the build
\* without API_KEY
Init ==
    /\ MOCK_EVENTS \in Datasets
    /\ InitApp
    /\ InitTimelineModal
    /\ apiKey = undefined

\* the render after a state update that changes a dependency of the memo:
\* useMemo recomputes from the new hook state
Rerender ==
    /\ visibleEvents' =
         Filtered(MOCK_EVENTS', density', searchQuery',
                  ActiveLens(activeLensId'), activeCustomTag')
    /\ eraChildCounts' =
         EraChildCounts(MOCK_EVENTS', visibleEvents',
                        ImportanceThreshold(density'))

\* a render in which no dependency of the memo changed: useMemo returns the
\* value it cached
MemoCached == UNCHANGED <<visibleEvents, eraChildCounts>>

-----------------------------------------------------------------------------
(* The tag explorer.                                                       *)

\* the characters of the tag strings of the pool
StringChars ==
    ("History" :> <<"H","i","s","t","o","r","y">>) @@
    ("Technology" :> <<"T","e","c","h","n","o","l","o","g","y">>) @@
    ("Rome" :> <<"R","o","m","e">>) @@
    ("War" :> <<"W","a","r">>) @@
    ("Physics" :> <<"P","h","y","s","i","c","s">>) @@
    ("Science" :> <<"S","c","i","e","n","c","e">>) @@
    ("Space" :> <<"S","p","a","c","e">>) @@
    ("physics" :> <<"p","h","y","s","i","c","s">>)

\* const availableTags = useMemo(...): the tags of the dataset
AvailableTags(events) ==
    UNION {{events[i].tags[k] : k \in 1..Len(events[i].tags)} :
              i \in 1..Len(events)}

\* const filteredTagSuggestions = useMemo(...)
FilteredTagSuggestions(events, ts) ==
    IF ts = <<>> THEN AvailableTags(events)
    ELSE {t \in AvailableTags(events) :
            Includes(ToLowerCase(StringChars[t]), ToLowerCase(ts))}

-----------------------------------------------------------------------------
(* geminiService: the requests of TimelineModal.  A text or an image is a  *)
(* tuple: its wording, followed by the id of the event it was made from    *)
(* when the event enters it (the mock summary quotes the title, the        *)
(* provider answers a prompt written from the event).  '' and null are the *)
(* empty tuple.  A promise settles as fulfilled with a value or rejected.  *)

\* what the provider does with a request: it answers, it answers without
\* text or image part, or the call throws
ProviderOutcomes == {"text", "empty", "throws"}

Fulfilled(v) == [status |-> "fulfilled", value |-> v]

Rejected == [status |-> "rejected", value |-> <<>>]

\* mutant: the provider's exception leaves getEventSummary
getEventSummary_NoCatch(event, outcome) ==
    IF ~Truthy(apiKey)
    THEN Fulfilled(<<"(AI Simulated Response)", event>>)
    ELSE CASE outcome = "text"   -> Fulfilled(<<"response.text", event>>)
           [] outcome = "empty"  -> Fulfilled(<<"Summary unavailable.">>)
           [] outcome = "throws" -> Rejected

\* export const getEventSummary = async (event) => { if (!apiKey) mock;
\* try { return response.text || "Summary unavailable." } catch { return ... } }
getEventSummary(event, outcome) ==
    IF ~Truthy(apiKey)
    THEN Fulfilled(<<"(AI Simulated Response)", event>>)
    ELSE CASE outcome = "text"   -> Fulfilled(<<"response.text", event>>)
           [] outcome = "empty"  -> Fulfilled(<<"Summary unavailable.">>)
           [] outcome = "throws" ->
                  Fulfilled(<<"Unable to generate summary at this time.">>)

\* export const createEventChatSession = (event) => { if (!apiKey) return null;
\* return ai.chats.create(...) }: a session is held by the id of its event
createEventChatSession(event) ==
    IF ~Truthy(apiKey) THEN null ELSE event

\* export const sendEventChatMessage = async (session, message) => {
\* if (!session || !apiKey) mock by message.includes('who'); try ... catch ... }
sendEventChatMessage(session, message, outcome) ==
    IF session = null \/ ~Truthy(apiKey)
    THEN Fulfilled(<<IF Includes(message, <<"w","h","o">>)
                     THEN "(AI Simulated Chat) people involved"
                     ELSE "(AI Simulated Chat) details">>)
    ELSE CASE outcome = "text"   -> Fulfilled(<<"response.text", session>>)
           [] outcome = "empty"  ->
                  Fulfilled(<<"I couldn't generate a response.">>)
           [] outcome = "throws" ->
                  Fulfilled(<<"Sorry, I encountered an error answering that.">>)

\* export const generateEventImage = async (event) => { if (!apiKey) mock:
\* event.imageUrl || placeholder; try { inlineData part or null } catch { null } }
\* no event of the pool has an imageUrl
generateEventImage(event, outcome) ==
    IF ~Truthy(apiKey)
    THEN Fulfilled(<<"https://picsum.photos/seed/mockai/512/512">>)
    ELSE CASE outcome = "text"   ->
                  Fulfilled(<<"data:image/png;base64", event>>)
           [] outcome = "empty"  -> Fulfilled(<<>>)
           [] outcome = "throws" -> Fulfilled(<<>>)

-----------------------------------------------------------------------------
(* TimelineModal stays mounted under App and receives selectedEvent as its *)
(* event prop.  Its activeTab only chooses which panel is drawn and is not *)
(* followed.                                                               *)

\* { role: 'model', text: `Hello! I'm your AI historian for "${event.title}"...` }
Greeting(event) ==
    [role |-> "model", text |-> <<"Hello! I'm your AI historian for", event>>]

\* useEffect(() => { if (event) { setActiveTab('overview'); setAiSummary('');
\* setGeneratedImage(null); setChatHistory([greeting]);
\* setChatSession(createEventChatSession(event)); } }, [event])
\* run after the render in which App's selectedEvent has changed
TimelineModalEffect ==
    /\ IF selectedEvent' # selectedEvent /\ selectedEvent' # null
       THEN /\ aiSummary' = <<>>
            /\ generatedImage' = <<>>
            /\ chatHistory' = <<Greeting(selectedEvent')>>
            /\ chatSession' = createEventChatSession(selectedEvent')
       ELSE UNCHANGED <<aiSummary, generatedImage, chatHistory, chatSession>>
    /\ UNCHANGED <<apiKey, summaryLoading, chatInput, chatLoading,
                   imageLoading, pending>>

-----------------------------------------------------------------------------
(* The handlers of App.  Each is one browser event: React applies the      *)
(* state updates of a handler together and renders once.                   *)

\* texts typed into the search box
TypedQueries == { <<"r","o","m","e">> }

\* texts typed into the tag search box
TypedTagSearches == { <<"p","h","y">> }

\* mutant: a slider whose range goes past 100
SliderValues_PastMax == {v \in 0..125 : v % 25 = 0}

\* <input type="range" min="0" max="100" step="25">
SliderValues == {v \in 0..100 : v % 25 = 0}

\* mutant: every visible event is a candidate, ERAs included
ShuffleCandidates_WithEras ==
    {visibleEvents[i].id : i \in 1..Len(visibleEvents)}

\* const candidates = visibleEvents.filter(e => e.type !== EventType.ERA)
ShuffleCandidates ==
    {visibleEvents[i].id : i \in
        {k \in 1..Len(visibleEvents) : visibleEvents[k].type # ERA}}

handleShuffle ==
    /\ IF ShuffleCandidates = {}
       THEN UNCHANGED shuffleTimers
       ELSE /\ Len(shuffleTimers) < MaxTimers
            /\ \E target \in ShuffleCandidates :
                   shuffleTimers' = Append(shuffleTimers, target)
    /\ UNCHANGED <<MOCK_EVENTS, density, searchQuery, selectedEvent,
                   activeLensId, activeCustomTag, showLensMenu, tagSearch,
                   isTagDropdownOpen>>
    /\ UNCHANGED modal
    /\ MemoCached

\* setTimeout(() => { setSelectedEvent(target); }, 600)
ShuffleTimeout ==
    /\ shuffleTimers # <<>>
    /\ selectedEvent' = Head(shuffleTimers)
    /\ shuffleTimers' = Tail(shuffleTimers)
    /\ UNCHANGED <<MOCK_EVENTS, density, searchQuery, activeLensId,
                   activeCustomTag, showLensMenu, tagSearch,
                   isTagDropdownOpen>>
    /\ TimelineModalEffect
    /\ MemoCached

\* mutant: the custom tag survives a lens selection
handleSelectLens_KeepsTag(lensId) ==
    /\ activeLensId' = lensId
    /\ tagSearch' = <<>>
    /\ showLensMenu' = FALSE
    /\ searchQuery' = <<>>
    /\ density' = IF lensId # "all" THEN 75 ELSE 25
    /\ UNCHANGED <<MOCK_EVENTS, selectedEvent, isTagDropdownOpen,
                   shuffleTimers, activeCustomTag>>
    /\ UNCHANGED modal
    /\ Rerender

handleSelectLens(lensId) ==
    /\ activeLensId' = lensId
    /\ activeCustomTag' = null
    /\ tagSearch' = <<>>
    /\ showLensMenu' = FALSE
    /\ searchQuery' = <<>>
    /\ density' = IF lensId # "all" THEN 75 ELSE 25
    /\ UNCHANGED <<MOCK_EVENTS, selectedEvent, isTagDropdownOpen,
                   shuffleTimers>>
    /\ UNCHANGED modal
    /\ Rerender

\* {LENSES.map(lens => <button onClick={() => handleSelectLens(lens.id)}>
LensClick ==
    /\ showLensMenu
    /\ \E i \in 1..Len(LENSES) : handleSelectLens(LENSES[i].id)

\* mutant: the active lens survives the choice of a tag
handleSelectTag_KeepsLens(tag) ==
    /\ activeCustomTag' = tag
    /\ UNCHANGED activeLensId
    /\ showLensMenu' = FALSE
    /\ searchQuery' = <<>>
    /\ density' = 100

\* the state updates of handleSelectTag
handleSelectTag(tag) ==
    /\ activeCustomTag' = tag
    /\ activeLensId' = "all"
    /\ showLensMenu' = FALSE
    /\ searchQuery' = <<>>
    /\ density' = 100

\* handleSelectTag(tag); setTagSearch(tag); setIsTagDropdownOpen(false)
TagSuggestionClick ==
    /\ showLensMenu
    /\ isTagDropdownOpen \/ tagSearch # <<>>
    /\ \E tag \in FilteredTagSuggestions(MOCK_EVENTS, tagSearch) :
          /\ handleSelectTag(tag)
          /\ tagSearch' = StringChars[tag]
    /\ isTagDropdownOpen' = FALSE
    /\ UNCHANGED <<MOCK_EVENTS, selectedEvent, shuffleTimers>>
    /\ UNCHANGED modal
    /\ Rerender

\* mutant: reset also closes the filter menu
handleReset_ClosesMenu ==
    /\ activeLensId' = "all"
    /\ activeCustomTag' = null
    /\ tagSearch' = <<>>
    /\ density' = 25
    /\ searchQuery' = <<>>
    /\ showLensMenu' = FALSE
    /\ UNCHANGED <<MOCK_EVENTS, selectedEvent, isTagDropdownOpen,
                   shuffleTimers>>
    /\ UNCHANGED modal
    /\ Rerender

handleReset ==
    /\ activeLensId' = "all"
    /\ activeCustomTag' = null
    /\ tagSearch' = <<>>
    /\ density' = 25
    /\ searchQuery' = <<>>
    /\ UNCHANGED <<MOCK_EVENTS, selectedEvent, showLensMenu,
                   isTagDropdownOpen, shuffleTimers>>
    /\ UNCHANGED modal
    /\ Rerender

\* onClick={() => setShowLensMenu(!showLensMenu)}
MenuToggle ==
    /\ showLensMenu' = ~showLensMenu
    /\ UNCHANGED <<MOCK_EVENTS, density, searchQuery, selectedEvent,
                   activeLensId, activeCustomTag, tagSearch,
                   isTagDropdownOpen, shuffleTimers>>
    /\ UNCHANGED modal
    /\ MemoCached

\* onClick={() => setShowLensMenu(false)}
MenuClose ==
    /\ showLensMenu
    /\ showLensMenu' = FALSE
    /\ UNCHANGED <<MOCK_EVENTS, density, searchQuery, selectedEvent,
                   activeLensId, activeCustomTag, tagSearch,
                   isTagDropdownOpen, shuffleTimers>>
    /\ UNCHANGED modal
    /\ MemoCached

\* <NavIcon label="Lenses" onClick={() => setShowLensMenu(true)} />
NavLenses ==
    /\ showLensMenu' = TRUE
    /\ UNCHANGED <<MOCK_EVENTS, density, searchQuery, selectedEvent,
                   activeLensId, activeCustomTag, tagSearch,
                   isTagDropdownOpen, shuffleTimers>>
    /\ UNCHANGED modal
    /\ MemoCached

\* mutant: clearing the tag also resets the density
ClearCustomTag_ResetsDensity ==
    /\ Truthy(activeCustomTag)
    /\ activeCustomTag' = null
    /\ tagSearch' = <<>>
    /\ density' = 25
    /\ UNCHANGED <<MOCK_EVENTS, searchQuery, selectedEvent,
                   activeLensId, showLensMenu, isTagDropdownOpen,
                   shuffleTimers>>
    /\ UNCHANGED modal
    /\ Rerender

\* onClick={() => {setActiveCustomTag(null); setTagSearch("");}}
ClearCustomTag ==
    /\ Truthy(activeCustomTag)
    /\ activeCustomTag' = null
    /\ tagSearch' = <<>>
    /\ UNCHANGED <<MOCK_EVENTS, density, searchQuery, selectedEvent,
                   activeLensId, showLensMenu, isTagDropdownOpen,
                   shuffleTimers>>
    /\ UNCHANGED modal
    /\ Rerender

\* mutant: typing a query closes the filter menu
SearchChange_ClosesMenu ==
    /\ \E q \in TypedQueries : searchQuery' = q
    /\ showLensMenu' = FALSE
    /\ UNCHANGED <<MOCK_EVENTS, density, selectedEvent, activeLensId,
                   activeCustomTag, tagSearch, isTagDropdownOpen,
                   shuffleTimers>>
    /\ UNCHANGED modal
    /\ Rerender

\* onChange={(e) => setSearchQuery(e.target.value)}
SearchChange ==
    /\ \E q \in TypedQueries : searchQuery' = q
    /\ UNCHANGED <<MOCK_EVENTS, density, selectedEvent, activeLensId,
                   activeCustomTag, showLensMenu, tagSearch,
                   isTagDropdownOpen, shuffleTimers>>
    /\ UNCHANGED modal
    /\ Rerender

\* {searchQuery && <button onClick={() => setSearchQuery('')}>
SearchCancel ==
    /\ searchQuery # <<>>
    /\ searchQuery' = <<>>
    /\ UNCHANGED <<MOCK_EVENTS, density, selectedEvent, activeLensId,
                   activeCustomTag, showLensMenu, tagSearch,
                   isTagDropdownOpen, shuffleTimers>>
    /\ UNCHANGED modal
    /\ Rerender

\* onChange={(e) => { setTagSearch(e.target.value); setIsTagDropdownOpen(true); }}
TagSearchChange ==
    /\ showLensMenu
    /\ \E ts \in TypedTagSearches : tagSearch' = ts
    /\ isTagDropdownOpen' = TRUE
    /\ UNCHANGED <<MOCK_EVENTS, density, searchQuery, selectedEvent,
                   activeLensId, activeCustomTag, showLensMenu,
                   shuffleTimers>>
    /\ UNCHANGED modal
    /\ MemoCached

\* onFocus={() => setIsTagDropdownOpen(true)}
TagSearchFocus ==
    /\ showLensMenu
    /\ isTagDropdownOpen' = TRUE
    /\ UNCHANGED <<MOCK_EVENTS, density, searchQuery, selectedEvent,
                   activeLensId, activeCustomTag, showLensMenu, tagSearch,
                   shuffleTimers>>
    /\ UNCHANGED modal
    /\ MemoCached

\* {tagSearch && <button onClick={() => setTagSearch('')}>
TagSearchClear ==
    /\ showLensMenu
    /\ tagSearch # <<>>
    /\ tagSearch' = <<>>
    /\ UNCHANGED <<MOCK_EVENTS, density, searchQuery, selectedEvent,
                   activeLensId, activeCustomTag, showLensMenu,
                   isTagDropdownOpen, shuffleTimers>>
    /\ UNCHANGED modal
    /\ MemoCached

\* const [density, setDensity] = useState<number>(25): the setter stores the
\* number it is given
setDensity(v) == density' = v

\* {ZOOM_LEVELS.map((level) => <div onClick={() => setDensity(level.value)}>
ZoomLevelClick ==
    /\ ~showLensMenu
    /\ \E i \in 1..Len(ZOOM_LEVELS) : setDensity(ZOOM_LEVELS[i].value)
    /\ UNCHANGED <<MOCK_EVENTS, searchQuery, selectedEvent, activeLensId,
                   activeCustomTag, showLensMenu, tagSearch,
                   isTagDropdownOpen, shuffleTimers>>
    /\ UNCHANGED modal
    /\ Rerender

\* onChange={(e) => setDensity(parseInt(e.target.value))}
SliderChange ==
    /\ ~showLensMenu
    /\ \E v \in SliderValues : setDensity(v)
    /\ UNCHANGED <<MOCK_EVENTS, searchQuery, selectedEvent, activeLensId,
                   activeCustomTag, showLensMenu, tagSearch,
                   isTagDropdownOpen, shuffleTimers>>
    /\ UNCHANGED modal
    /\ Rerender

\* mutant: the card of an ERA selects too
EventClick_AnyCard ==
    /\ \E i \in 1..Len(visibleEvents) :
          selectedEvent' = visibleEvents[i].id
    /\ UNCHANGED <<MOCK_EVENTS, density, searchQuery, activeLensId,
                   activeCustomTag, showLensMenu, tagSearch,
                   isTagDropdownOpen, shuffleTimers>>
    /\ TimelineModalEffect
    /\ MemoCached

\* <TimelineEvent onSelect={setSelectedEvent}>: only the card of a non-ERA event
\* has onClick={() => onSelect(event)}
EventClick ==
    /\ \E i \in 1..Len(visibleEvents) :
          /\ visibleEvents[i].type # ERA
          /\ selectedEvent' = visibleEvents[i].id
    /\ UNCHANGED <<MOCK_EVENTS, density, searchQuery, activeLensId,
                   activeCustomTag, showLensMenu, tagSearch,
                   isTagDropdownOpen, shuffleTimers>>
    /\ TimelineModalEffect
    /\ MemoCached

\* <TimelineModal onClose={() => setSelectedEvent(null)} />
ModalClose ==
    /\ selectedEvent # null
    /\ selectedEvent' = null
    /\ UNCHANGED <<MOCK_EVENTS, density, searchQuery, activeLensId,
                   activeCustomTag, showLensMenu, tagSearch,
                   isTagDropdownOpen, shuffleTimers>>
    /\ TimelineModalEffect
    /\ MemoCached

Next ==
    \/ handleShuffle
    \/ ShuffleTimeout
    \/ LensClick
    \/ TagSuggestionClick
    \/ handleReset
    \/ MenuToggle
    \/ MenuClose
    \/ NavLenses
    \/ ClearCustomTag
    \/ SearchChange
    \/ SearchCancel
    \/ TagSearchChange
    \/ TagSearchFocus
    \/ TagSearchClear
    \/ ZoomLevelClick
    \/ SliderChange
    \/ EventClick
    \/ ModalClose

Spec == Init /\ [][Next]_vars

-----------------------------------------------------------------------------
(* The handlers of TimelineModal.  An async handler runs to its await,     *)
(* stays in pending with the event, session and message it closed over,    *)
(* and resumes when its promise settles.  What the provider answers is     *)
(* outside the program: it is drawn when the request is made and kept      *)
(* with the request.                                                       *)

app == <<MOCK_EVENTS, density, searchQuery, selectedEvent, activeLensId,
         activeCustomTag, showLensMenu, tagSearch, isTagDropdownOpen,
         shuffleTimers, visibleEvents, eraChildCounts>>

\* texts typed into the chat box
TypedMessages == { <<"w","h","o","?">>, <<"h","i">>, <<" ">> }

\* the builds: without API_KEY and with one
ApiKeys == {undefined, "key"}

\* what the provider will do with a request, fixed when the request is
\* made; without a credential the provider is not called
Provider == IF Truthy(apiKey) THEN ProviderOutcomes ELSE {null}

Request(fn, event, session, message, outcome) ==
    [fn |-> fn, event |-> event, session |-> session, message |-> message,
     outcome |-> outcome]

RemoveAt(seq, i) == SubSeq(seq, 1, i - 1) \o SubSeq(seq, i + 1, Len(seq))

\* the panels in use: a panel whose handler has a call suspended or whose
\* state is not what the useState defaults and the modal's effect give
PanelsUsed ==
    {pending[i].fn : i \in 1..Len(pending)}
    \cup (IF aiSummary # <<>> \/ summaryLoading
          THEN {"getEventSummary"} ELSE {})
    \cup (IF chatInput # <<>> \/ chatLoading \/ Len(chatHistory) > 1
          THEN {"sendEventChatMessage"} ELSE {})
    \cup (IF generatedImage # <<>> \/ imageLoading
          THEN {"generateEventImage"} ELSE {})

\* the calls followed: any mix up to MaxPending, and up to MaxRequests
\* overlapping calls of one panel when no other panel is in use
Suspendable(fn) ==
    \/ Len(pending) < MaxPending
    \/ /\ PanelsUsed \subseteq {fn}
       /\ Len(pending) < MaxRequests

\* the promises of one mock function settle in the order of their timers;
\* the provider's promises settle in any order
Settles(i) ==
    \/ Truthy(apiKey)
    \/ \A j \in 1..(i - 1) : pending[j].fn # pending[i].fn

\* const handleAiSummarize = async () => { if (!event) return;
\* setSummaryLoading(true); const summary = await getEventSummary(event); ...
\* its button is drawn when !aiSummary && !summaryLoading
handleAiSummarize ==
    /\ selectedEvent # null
    /\ aiSummary = <<>>
    /\ ~summaryLoading
    /\ Suspendable("getEventSummary")
    /\ summaryLoading' = TRUE
    /\ \E outcome \in Provider :
          pending' = Append(pending,
                            Request("getEventSummary", selectedEvent, null,
                                    <<>>, outcome))
    /\ UNCHANGED <<apiKey, aiSummary, chatSession, chatHistory, chatInput,
                   chatLoading, generatedImage, imageLoading>>
    /\ UNCHANGED app

\* ... setAiSummary(summary); setSummaryLoading(false); }
\* a rejected promise throws at the await and ends the handler there
AiSummarizeResume ==
    /\ \E i \in 1..Len(pending) :
          /\ pending[i].fn = "getEventSummary"
          /\ Settles(i)
          /\ pending' = RemoveAt(pending, i)
          /\ LET summary ==
                      getEventSummary(pending[i].event, pending[i].outcome) IN
             IF summary.status = "fulfilled"
             THEN /\ aiSummary' = summary.value
                  /\ summaryLoading' = FALSE
             ELSE UNCHANGED <<aiSummary, summaryLoading>>
    /\ UNCHANGED <<apiKey, chatSession, chatHistory, chatInput, chatLoading,
                   generatedImage, imageLoading>>
    /\ UNCHANGED app

\* <input value={chatInput} onChange={(e) => setChatInput(e.target.value)} />
ChatInputChange ==
    /\ selectedEvent # null
    /\ \E m \in TypedMessages : chatInput' = m
    /\ UNCHANGED <<apiKey, aiSummary, summaryLoading, chatSession,
                   chatHistory, chatLoading, generatedImage, imageLoading,
                   pending>>
    /\ UNCHANGED app

\* const handleSendMessage = async (e) => { if (!chatInput.trim() || !event)
\* return; const userMsg = chatInput; setChatInput(''); setChatHistory(prev =>
\* [...prev, user message]); setChatLoading(true); const responseText =
\* await sendEventChatMessage(chatSession, userMsg); ...
\* the submit button is disabled={!chatInput.trim() || chatLoading}
handleSendMessage ==
    /\ selectedEvent # null
    /\ Trim(chatInput) # <<>>
    /\ ~chatLoading
    /\ Len(chatHistory) + 2 <= MaxMessages
    /\ Suspendable("sendEventChatMessage")
    /\ chatInput' = <<>>
    /\ chatHistory' = Append(chatHistory, [role |-> "user", text |-> chatInput])
    /\ chatLoading' = TRUE
    /\ \E outcome \in Provider :
          pending' = Append(pending,
                            Request("sendEventChatMessage", selectedEvent,
                                    chatSession, chatInput, outcome))
    /\ UNCHANGED <<apiKey, aiSummary, summaryLoading, chatSession,
                   generatedImage, imageLoading>>
    /\ UNCHANGED app

\* ... setChatHistory(prev => [...prev, { role: 'model', text: responseText }]);
\* setChatLoading(false); }
SendMessageResume ==
    /\ \E i \in 1..Len(pending) :
          /\ pending[i].fn = "sendEventChatMessage"
          /\ Settles(i)
          /\ pending' = RemoveAt(pending, i)
          /\ LET responseText ==
                      sendEventChatMessage(pending[i].session,
                                           pending[i].message,
                                           pending[i].outcome) IN
             IF responseText.status = "fulfilled"
             THEN /\ chatHistory' =
                         Append(chatHistory,
                                [role |-> "model",
                                 text |-> responseText.value])
                  /\ chatLoading' = FALSE
             ELSE UNCHANGED <<chatHistory, chatLoading>>
    /\ UNCHANGED <<apiKey, aiSummary, summaryLoading, chatSession, chatInput,
                   generatedImage, imageLoading>>
    /\ UNCHANGED app

\* const handleGenerateImage = async () => { if (!event) return;
\* setImageLoading(true); const imgData = await generateEventImage(event); ...
\* "Generate Scene" is drawn when !generatedImage && !imageLoading,
\* "Regenerate" whenever generatedImage is set
handleGenerateImage ==
    /\ selectedEvent # null
    /\ \/ generatedImage = <<>> /\ ~imageLoading
       \/ generatedImage # <<>>
    /\ Suspendable("generateEventImage")
    /\ imageLoading' = TRUE
    /\ \E outcome \in Provider :
          pending' = Append(pending,
                            Request("generateEventImage", selectedEvent, null,
                                    <<>>, outcome))
    /\ UNCHANGED <<apiKey, aiSummary, summaryLoading, chatSession,
                   chatHistory, chatInput, chatLoading, generatedImage>>
    /\ UNCHANGED app

\* mutant: a resolution does not replace an image already stored
GenerateImageResume_KeepsStored ==
    /\ \E i \in 1..Len(pending) :
          /\ pending[i].fn = "generateEventImage"
          /\ Settles(i)
          /\ pending' = RemoveAt(pending, i)
          /\ LET imgData ==
                      generateEventImage(pending[i].event,
                                         pending[i].outcome) IN
             IF imgData.status = "fulfilled"
             THEN /\ generatedImage' =
                         IF generatedImage # <<>> THEN generatedImage
                         ELSE imgData.value
                  /\ imageLoading' = FALSE
             ELSE UNCHANGED <<generatedImage, imageLoading>>
    /\ UNCHANGED <<apiKey, aiSummary, summaryLoading, chatSession,
                   chatHistory, chatInput, chatLoading>>
    /\ UNCHANGED app

\* ... setGeneratedImage(imgData); setImageLoading(false); }
GenerateImageResume ==
    /\ \E i \in 1..Len(pending) :
          /\ pending[i].fn = "generateEventImage"
          /\ Settles(i)
          /\ pending' = RemoveAt(pending, i)
          /\ LET imgData ==
                      generateEventImage(pending[i].event,
                                         pending[i].outcome) IN
             IF imgData.status = "fulfilled"
             THEN /\ generatedImage' = imgData.value
                  /\ imageLoading' = FALSE
             ELSE UNCHANGED <<generatedImage, imageLoading>>
    /\ UNCHANGED <<apiKey, aiSummary, summaryLoading, chatSession,
                   chatHistory, chatInput, chatLoading>>
    /\ UNCHANGED app

\* the whole pool is the catalog, in either build; the cards of the default
\* view are opened and closed
InitModal ==
    /\ MOCK_EVENTS = Pool
    /\ InitApp
    /\ InitTimelineModal
    /\ apiKey \in ApiKeys

NextModal ==
    \/ EventClick
    \/ ModalClose
    \/ handleAiSummarize
    \/ AiSummarizeResume
    \/ ChatInputChange
    \/ handleSendMessage
    \/ SendMessageResume
    \/ handleGenerateImage
    \/ GenerateImageResume

SpecModal == InitModal /\ [][NextModal]_vars

-----------------------------------------------------------------------------
(* The filter as a function of its inputs: every dependency of the memo    *)
(* can take any value of its input set, and the memo is recomputed.        *)

\* the numbers setDensity is called with: the range of the slider and one
\* number beyond each end
DensityInputs == -1..MaxDensity

SearchInputs ==
    { <<>>, <<" ">>,
      <<"r","o","m","e">>, <<"R","o","m","e">>,
      <<" ","r","o","m","e">>, <<"r","o","m","e"," ">>,
      <<"b","c">>, <<"w","a","r">> }

UnknownLensId == "atlantis"

LensIdInputs == {LENSES[i].id : i \in 1..Len(LENSES)} \cup {UnknownLensId}

TagInputs == {null, "Physics", "History"}

MemoDensity ==
    /\ \E d \in ({density - 1, density + 1}
                \cup {ZOOM_LEVELS[i].value : i \in 1..Len(ZOOM_LEVELS)})
               \cap DensityInputs : setDensity(d)
    /\ UNCHANGED <<MOCK_EVENTS, searchQuery, activeLensId, activeCustomTag>>
    /\ UNCHANGED appOnly
    /\ UNCHANGED modal
    /\ Rerender

MemoSearchQuery ==
    /\ \E q \in SearchInputs : searchQuery' = q
    /\ UNCHANGED <<MOCK_EVENTS, density, activeLensId, activeCustomTag>>
    /\ UNCHANGED appOnly
    /\ UNCHANGED modal
    /\ Rerender

MemoActiveLens ==
    /\ \E l \in LensIdInputs : activeLensId' = l
    /\ UNCHANGED <<MOCK_EVENTS, density, searchQuery, activeCustomTag>>
    /\ UNCHANGED appOnly
    /\ UNCHANGED modal
    /\ Rerender

MemoActiveCustomTag ==
    /\ \E t \in TagInputs : activeCustomTag' = t
    /\ UNCHANGED <<MOCK_EVENTS, density, searchQuery, activeLensId>>
    /\ UNCHANGED appOnly
    /\ UNCHANGED modal
    /\ Rerender

NextView ==
    \/ MemoDensity
    \/ MemoSearchQuery
    \/ MemoActiveLens
    \/ MemoActiveCustomTag

SpecView == Init /\ [][NextView]_vars

-----------------------------------------------------------------------------
(* Vocabulary of the properties: the filter's steps as the specification   *)
(* words them, over the current state.                                     *)

Elems(seq) == {seq[i] : i \in 1..Len(seq)}

IsVisible(e) == e \in Elems(visibleEvents)

StatedCutoff(d) ==
    CASE d >= 100 -> 1
      [] d >= 75 /\ d < 100 -> 6
      [] d >= 50 /\ d < 75 -> 7
      [] d >= 25 /\ d < 50 -> 8
      [] d < 25 -> 9

StatedLensTags ==
    IF \E i \in 1..Len(LENSES) : LENSES[i].id = activeLensId
    THEN Elems(LENSES[CHOOSE i \in 1..Len(LENSES) :
                          LENSES[i].id = activeLensId].tags)
    ELSE {}

FieldsContain(e, q) ==
    \E field \in {e.title, e.description, e.yearDisplay} :
        Includes(ToLowerCase(field), q)

StatedSearchStep(e) ==
    \/ Trim(searchQuery) = <<>>
    \/ FieldsContain(e, ToLowerCase(searchQuery))

StatedTagStep(e) ==
    IF activeCustomTag # null THEN activeCustomTag \in Elems(e.tags)
    ELSE IF StatedLensTags # {} THEN Elems(e.tags) \cap StatedLensTags # {}
    ELSE TRUE

StatedGate(e) == e.type = ERA \/ e.importance >= StatedCutoff(density)

NoFilters ==
    /\ searchQuery = <<>>
    /\ activeLensId = "all"
    /\ activeCustomTag = null

AbsentChildren(e) ==
    Cardinality({i \in 1..Len(MOCK_EVENTS) :
                    /\ MOCK_EVENTS[i].parentId = e.id
                    /\ ~IsVisible(MOCK_EVENTS[i])})

PresentedCount(e) ==
    IF e.id \in DOMAIN eraChildCounts THEN eraChildCounts[e.id] ELSE 0

-----------------------------------------------------------------------------
(* Properties of the filter.                                               *)

\* C1: an event of the dataset is in visibleEvents if and only if it passes
\* the search step, the tag/lens step and the importance gate; the tag step
\* and the gate are independent and both must pass.
C1_VisibleIffAllSteps ==
    \A e \in Elems(MOCK_EVENTS) :
        IsVisible(e) <=>
            (StatedSearchStep(e) /\ StatedTagStep(e) /\ StatedGate(e))

\* C1 witness: under the custom tag "Physics" at density 0 the tagged
\* importance-1 event is hidden by the gate while the tagged ERA is shown.
C1_Witness ==
    /\ activeCustomTag = "Physics"
    /\ density = 0
    /\ Atom \in Elems(MOCK_EVENTS) /\ ~IsVisible(Atom)
    /\ IsVisible(Modern)

\* C2: the cutoff the filter derives from the density is 1 from 100 up, 6 on
\* [75,100), 7 on [50,75), 8 on [25,50) and 9 below 25, and it never rises
\* when the density rises.
C2_CutoffTable ==
    /\ ImportanceThreshold(density) = StatedCutoff(density)
    /\ \A d \in DensityInputs :
          d >= density =>
              ImportanceThreshold(d) <= ImportanceThreshold(density)

\* C2 witness: at density 99, inside [75,100), the importance-6 event is shown
\* and the importance-5 event is not.
C2_Witness ==
    /\ density = 99
    /\ NoFilters
    /\ IsVisible(Sack)
    /\ Bronze \in Elems(MOCK_EVENTS) /\ ~IsVisible(Bronze)

\* C3: an ERA is visible exactly when it passes the search step and the
\* tag/lens step, whatever the density and its importance.
C3_EraExemptFromGate ==
    \A e \in Elems(MOCK_EVENTS) :
        e.type = ERA =>
            (IsVisible(e) <=> (StatedSearchStep(e) /\ StatedTagStep(e)))

\* C3 witness: the importance-3 ERA is shown at density 0 (cutoff 9).
C3_Witness ==
    /\ density = 0
    /\ Modern.importance < StatedCutoff(density)
    /\ IsVisible(Modern)

\* C4: when only the density changes and it does not decrease, no visible
\* event is lost.
C4_MonotoneInDensity ==
    [][ (/\ density' >= density
         /\ UNCHANGED <<MOCK_EVENTS, searchQuery, activeLensId,
                        activeCustomTag>>)
        => Elems(visibleEvents) \subseteq Elems(visibleEvents') ]_vars

\* C4 witness: density raised from the initial 25 to 100, where the
\* importance-1 event has joined the visible events.
C4_Witness ==
    /\ density = 100
    /\ NoFilters
    /\ IsVisible(Atom)
    /\ Len(visibleEvents) = Len(MOCK_EVENTS)

\* C5: under a non-blank query, an event none of whose lowercased title,
\* description and yearDisplay contains the query is hidden, ERAs included;
\* a tag that contains the query does not count.
C5_SearchMissHides ==
    Trim(searchQuery) # <<>> =>
        \A e \in Elems(MOCK_EVENTS) :
            ~FieldsContain(e, ToLowerCase(searchQuery)) => ~IsVisible(e)

\* C5 witness: the query "war" hides the ERA and the event tagged "War",
\* neither of which has "war" in its text.
C5_Witness ==
    /\ searchQuery = <<"w","a","r">>
    /\ activeLensId = "all" /\ activeCustomTag = null
    /\ Antiquity \in Elems(MOCK_EVENTS) /\ ~IsVisible(Antiquity)
    /\ FallOfRome \in Elems(MOCK_EVENTS) /\ ~IsVisible(FallOfRome)

\* C6: the query is trimmed before comparison: an event is visible if and
\* only if the trimmed, lowercased query is blank or a substring of its
\* lowercased title, description or yearDisplay, and it passes the tag/lens
\* step and the gate (so queries differing only in outer whitespace agree).
C6_TrimmedQueryCompared ==
    \A e \in Elems(MOCK_EVENTS) :
        IsVisible(e) <=>
            /\ \/ Trim(searchQuery) = <<>>
               \/ FieldsContain(e, ToLowerCase(Trim(searchQuery)))
            /\ StatedTagStep(e)
            /\ StatedGate(e)

\* C7: when a custom tag is set, an event is visible if and only if it passes
\* the search step, carries exactly that tag and passes the gate; the active
\* lens does not enter.
C7_CustomTagOverridesLens ==
    Truthy(activeCustomTag) =>
        \A e \in Elems(MOCK_EVENTS) :
            IsVisible(e) <=>
                /\ StatedSearchStep(e)
                /\ \E i \in 1..Len(e.tags) : e.tags[i] = activeCustomTag
                /\ StatedGate(e)

\* C7 witness: tag "Physics" under the lens "culture", whose tags no event
\* carries: the ERA tagged "Physics" is shown, the event tagged "physics" is
\* hidden at density 100.
C7_Witness ==
    /\ activeCustomTag = "Physics"
    /\ activeLensId = "culture"
    /\ density = 100
    /\ IsVisible(Modern)
    /\ Founding \in Elems(MOCK_EVENTS) /\ ~IsVisible(Founding)

\* C8: visibleEvents is a selection of the dataset in the dataset's order
\* with no event twice, the dataset never changes, and a step that leaves the
\* controls alone leaves visibleEvents and the hidden-child counts alone.
C8_StableSelection ==
    /\ [](/\ Elems(visibleEvents) \subseteq Elems(MOCK_EVENTS)
          /\ \A k, l \in 1..Len(visibleEvents) :
                k < l =>
                    \E i, j \in 1..Len(MOCK_EVENTS) :
                        /\ i < j
                        /\ MOCK_EVENTS[i] = visibleEvents[k]
                        /\ MOCK_EVENTS[j] = visibleEvents[l])
    /\ [][ /\ MOCK_EVENTS' = MOCK_EVENTS
           /\ controls' = controls =>
                 /\ visibleEvents' = visibleEvents
                 /\ eraChildCounts' = eraChildCounts ]_vars

\* C8 witness: two events selected in dataset order, the first event of the
\* dataset left out.
C8_Witness ==
    /\ MOCK_EVENTS = <<Atom, Modern, Probe>>
    /\ activeLensId = "innovation"
    /\ density = 75
    /\ visibleEvents = <<Modern, Probe>>

\* C9 as stated: for every visible ERA the presented hidden-child count is
\* the number of its direct children absent from visibleEvents.
C9_CountIsAbsentChildren ==
    \A e \in Elems(visibleEvents) :
        e.type = ERA => PresentedCount(e) = AbsentChildren(e)

\* C9 amended: for every visible ERA the presented hidden-child count is the
\* number of its direct children absent from visibleEvents while the cutoff
\* is above 1, and 0 when the cutoff is 1.
C9_CountIsAbsentChildrenBelowMax ==
    \A e \in Elems(visibleEvents) :
        e.type = ERA =>
            PresentedCount(e) =
                IF StatedCutoff(density) > 1 THEN AbsentChildren(e) ELSE 0

\* C9 witness: a tag was picked (density 100); the ERA is shown, a child of
\* it is filtered out by the tag, and the count presented is 0.
C9_Witness ==
    /\ activeCustomTag = "Physics"
    /\ density = 100
    /\ IsVisible(Modern)
    /\ AbsentChildren(Modern) = 1
    /\ PresentedCount(Modern) = 0

\* C10: while the cutoff is above 1 the hidden-child map has an entry exactly
\* for the visible ERAs with at least one direct child absent from
\* visibleEvents, holding that number; with an ERA and its children of
\* importance 5 and 9 at density 25 and no filter, the ERA and the
\* importance-9 child are visible and the ERA's count is 1.
C10_HiddenChildMap ==
    /\ StatedCutoff(density) > 1 =>
          /\ DOMAIN eraChildCounts =
                {e.id : e \in {v \in Elems(visibleEvents) :
                                  v.type = ERA /\ AbsentChildren(v) >= 1}}
          /\ \A e \in Elems(visibleEvents) :
                e.id \in DOMAIN eraChildCounts =>
                    eraChildCounts[e.id] = AbsentChildren(e)
    /\ (/\ density = 25
        /\ NoFilters
        /\ {Antiquity, Bronze, FallOfRome} \subseteq Elems(MOCK_EVENTS))
       => /\ IsVisible(Antiquity) /\ IsVisible(FallOfRome)
          /\ ~IsVisible(Bronze)
          /\ eraChildCounts["antiquity"] = 1

\* C10 witness: the scenario itself.
C10_Witness ==
    /\ MOCK_EVENTS = <<Antiquity, Bronze, FallOfRome>>
    /\ density = 25
    /\ NoFilters
    /\ visibleEvents = <<Antiquity, FallOfRome>>
    /\ DOMAIN eraChildCounts = {"antiquity"}
    /\ eraChildCounts["antiquity"] = 1

\* C11: when the cutoff is 1 (density 100 or more) no ERA has an entry in the
\* hidden-child map, so every ERA's count is 0, whatever the search, lens and
\* custom tag; and an ERA with no child in the dataset has no entry and count
\* 0 at every density.
C11_NoCountAtFullDensityOrChildless ==
    \A e \in Elems(MOCK_EVENTS) :
        e.type = ERA =>
            /\ StatedCutoff(density) = 1 =>
                  /\ e.id \notin DOMAIN eraChildCounts
                  /\ PresentedCount(e) = 0
            /\ (\A c \in Elems(MOCK_EVENTS) : c.parentId # e.id) =>
                  /\ e.id \notin DOMAIN eraChildCounts
                  /\ PresentedCount(e) = 0

\* C11 witness: at density 100 under the tag "History" the ERA with a child
\* is shown, its child is filtered out, and the map is empty; the ERA without
\* children is shown too.
C11_Witness ==
    /\ MOCK_EVENTS = <<Prehistory, Antiquity, Bronze>>
    /\ density = 100
    /\ activeCustomTag = "History"
    /\ IsVisible(Antiquity) /\ IsVisible(Prehistory)
    /\ AbsentChildren(Antiquity) = 1
    /\ AbsentChildren(Prehistory) = 0
    /\ DOMAIN eraChildCounts = {}

\* an event whose parentId names no ERA of the dataset
Dangling(e) ==
    /\ e.parentId # undefined
    /\ ~\E p \in Elems(MOCK_EVENTS) : p.id = e.parentId /\ p.type = ERA

\* C12: an event whose parentId names no event of the dataset, or a non-ERA
\* event, creates no map entry, is counted for no ERA (every ERA's count is
\* what it is without that event), and is visible exactly when the same
\* event without parentId passes the steps of the filter.
C12_DanglingParentTolerated ==
    \A e \in Elems(MOCK_EVENTS) :
        Dangling(e) =>
            /\ e.parentId \notin DOMAIN eraChildCounts
            /\ \A a \in Elems(MOCK_EVENTS) :
                  a.type = ERA =>
                      PresentedCount(a) =
                          IF StatedCutoff(density) > 1 /\ IsVisible(a)
                          THEN Cardinality(
                                  {c \in Elems(MOCK_EVENTS) \ {e} :
                                      c.parentId = a.id /\ ~IsVisible(c)})
                          ELSE 0
            /\ LET orphan == [e EXCEPT !.parentId = undefined]
               IN  IsVisible(e) <=>
                       /\ StatedSearchStep(orphan)
                       /\ StatedTagStep(orphan)
                       /\ StatedGate(orphan)

\* C12 witness: at density 0 the event whose parent "ghost" is not in the
\* dataset is hidden by the gate, as is the one child of the visible ERA; the
\* map holds 1 for the ERA and nothing else.
C12_Witness ==
    /\ MOCK_EVENTS = <<Modern, Probe, Founding>>
    /\ density = 0
    /\ NoFilters
    /\ Dangling(Founding)
    /\ ~IsVisible(Founding) /\ ~IsVisible(Probe)
    /\ IsVisible(Modern)
    /\ DOMAIN eraChildCounts = {"modern"}
    /\ eraChildCounts["modern"] = 1

-----------------------------------------------------------------------------
(* Properties of the transitions of the controls.                          *)

\* C13: a step of selectLens(lensId) ends with the active lens lensId, no
\* custom tag, an empty tag-search text, the menu closed, an empty search
\* query and density 75 for a lens other than 'all', 25 for 'all', whatever
\* the state before; the selected event is unchanged.  So selecting
\* 'innovation' and then 'all' ends at density 25 with no custom tag.
C13_SelectLensPostState ==
    [][ \A i \in 1..Len(LENSES) :
            handleSelectLens(LENSES[i].id) =>
                /\ activeLensId' = LENSES[i].id
                /\ activeCustomTag' = null
                /\ tagSearch' = <<>>
                /\ showLensMenu' = FALSE
                /\ searchQuery' = <<>>
                /\ density' = IF LENSES[i].id = "all" THEN 25 ELSE 75
                /\ selectedEvent' = selectedEvent ]_vars

\* C13 witness: the lens 'innovation' selected while an event is selected:
\* density 75, menu closed, no tag, no query, the event still selected.
C13_Witness ==
    /\ activeLensId = "innovation"
    /\ density = 75
    /\ activeCustomTag = null /\ tagSearch = <<>>
    /\ searchQuery = <<>>
    /\ ~showLensMenu
    /\ selectedEvent # null

\* C14: a step of selectCustomTag(tag), the click on the suggestion tag, sets
\* the custom tag to tag, the active lens to 'all', closes the menu, empties
\* the search query and sets density to 100, whatever the state before; the
\* selected event is unchanged.
C14_SelectCustomTagPostState ==
    [][ \A tag \in DOMAIN StringChars :
            (tagSearch' = StringChars[tag] /\ TagSuggestionClick) =>
                /\ activeCustomTag' = tag
                /\ activeLensId' = "all"
                /\ showLensMenu' = FALSE
                /\ searchQuery' = <<>>
                /\ density' = 100
                /\ selectedEvent' = selectedEvent ]_vars

\* C14 witness: the tag "Physics" picked while an event is selected.
C14_Witness ==
    /\ activeCustomTag = "Physics"
    /\ tagSearch = StringChars["Physics"]
    /\ activeLensId = "all"
    /\ density = 100
    /\ searchQuery = <<>>
    /\ ~showLensMenu
    /\ selectedEvent # null

\* the view of a session that has just started: the ERAs and the events of
\* importance 8 or more, in dataset order, and for each ERA the number of
\* its children below 8
StatedInitialView ==
    LET major(e) == e.type = ERA \/ e.importance >= 8
    IN  SelectSeq(MOCK_EVENTS, major)

StatedInitialCounts ==
    LET minor(a) == Cardinality({c \in Elems(MOCK_EVENTS) :
                                    /\ c.parentId = a.id
                                    /\ c.type # ERA
                                    /\ c.importance < 8})
        keys == {a.id : a \in {b \in Elems(MOCK_EVENTS) :
                                  b.type = ERA /\ minor(b) > 0}}
    IN  [id \in keys |->
            minor(CHOOSE a \in Elems(MOCK_EVENTS) : a.id = id)]

\* C15: the session starts with lens 'all', no custom tag, an empty query
\* and density 25, and a step of reset() ends with exactly these values and
\* with the view of the initial state, whatever the state before; it leaves
\* the menu state and the selected event unchanged.  Everything reset writes
\* is a constant and everything else is left alone, so a second reset
\* changes nothing.
C15_ResetRestoresInitialView ==
    /\ /\ activeLensId = "all" /\ activeCustomTag = null
       /\ searchQuery = <<>> /\ density = 25
       /\ visibleEvents = StatedInitialView
       /\ eraChildCounts = StatedInitialCounts
    /\ [][ handleReset =>
              /\ activeLensId' = "all" /\ activeCustomTag' = null
              /\ searchQuery' = <<>> /\ density' = 25
              /\ visibleEvents' = StatedInitialView'
              /\ eraChildCounts' = StatedInitialCounts'
              /\ tagSearch' = <<>>
              /\ showLensMenu' = showLensMenu
              /\ selectedEvent' = selectedEvent
              /\ UNCHANGED <<MOCK_EVENTS, isTagDropdownOpen,
                             shuffleTimers>> ]_vars

\* C15 witness: the controls back at their initial values and the view back
\* at the initial view while the menu is open, its dropdown is open and an
\* event is selected.
C15_Witness ==
    /\ activeLensId = "all" /\ activeCustomTag = null
    /\ searchQuery = <<>> /\ density = 25 /\ tagSearch = <<>>
    /\ visibleEvents = StatedInitialView
    /\ showLensMenu /\ isTagDropdownOpen
    /\ selectedEvent # null

\* C16 as stated: a step of clearCustomTag() clears the custom tag and
\* changes nothing else of the controls: active lens, density, search query,
\* menu state, selected event and tag-search text are unchanged.
C16_ClearsTagOnly ==
    [][ ClearCustomTag =>
            /\ activeCustomTag' = null
            /\ UNCHANGED <<activeLensId, density, searchQuery, showLensMenu,
                           selectedEvent>>
            /\ UNCHANGED tagSearch ]_vars

\* C16 amended: a step of clearCustomTag() clears the custom tag and the
\* tag-search text; active lens, density, search query, menu state and
\* selected event are unchanged.
C16_ClearsTagAndTagSearch ==
    [][ ClearCustomTag =>
            /\ activeCustomTag' = null
            /\ tagSearch' = <<>>
            /\ UNCHANGED <<activeLensId, density, searchQuery, showLensMenu,
                           selectedEvent>> ]_vars

\* C16 witness: the tag picked at density 100 has been cleared while an
\* event is selected: no tag, empty tag-search text, density still 100.
C16_Witness ==
    /\ activeCustomTag = null
    /\ tagSearch = <<>>
    /\ density = 100
    /\ activeLensId = "all"
    /\ selectedEvent # null
    /\ Len(visibleEvents) = Len(MOCK_EVENTS)

\* C17: a step of setDensity(v) stores min(max(v, 0), 100), for every integer
\* v including v < 0 and v > 100, and changes no other control.
C17_SetDensityClamps ==
    [][ \A v \in DensityInputs :
            (setDensity(v) /\ MemoDensity) =>
                /\ density' = IF v < 0 THEN 0 ELSE IF v > 100 THEN 100 ELSE v
                /\ UNCHANGED <<activeLensId, activeCustomTag, searchQuery,
                               showLensMenu, selectedEvent>> ]_vars

\* C18: in every state the user's transitions reach, density is an integer
\* from 0 to 100.
C18_DensityInRange ==
    density \in 0..100

\* C18 witness: a tag was picked (density 100) and the slider then moved to
\* 50, a value only the slider and the zoom levels set.
C18_Witness ==
    /\ Truthy(activeCustomTag)
    /\ density = 50
    /\ ~showLensMenu

\* C19: the filter menu is closed at start and is always either closed or
\* open.  A step that opens it is the header toggle or the "Lenses"
\* navigation item; a step that closes it is the close button, the header
\* toggle, a selectLens or a selectCustomTag; a step that changes it is
\* never a reset, setDensity, setSearchQuery, clearCustomTag, shuffle or
\* event selection.
C19_MenuStateMachine ==
    /\ showLensMenu = FALSE
    /\ [](showLensMenu \in BOOLEAN)
    /\ [][ /\ (~showLensMenu /\ showLensMenu') =>
                  (MenuToggle \/ NavLenses)
           /\ (showLensMenu /\ ~showLensMenu') =>
                  (MenuClose \/ MenuToggle \/ LensClick
                     \/ TagSuggestionClick)
           /\ showLensMenu' # showLensMenu =>
                  ~(\/ handleReset
                    \/ ZoomLevelClick \/ SliderChange
                    \/ SearchChange \/ SearchCancel
                    \/ ClearCustomTag
                    \/ handleShuffle \/ ShuffleTimeout
                    \/ EventClick \/ ModalClose) ]_vars

\* C19 witness: the menu is open again after the selection of the lens
\* 'cosmos' had closed it.
C19_Witness ==
    /\ showLensMenu
    /\ activeLensId = "cosmos"
    /\ density = 75

\* the ids of the lens catalog
CatalogIds == {LENSES[i].id : i \in 1..Len(LENSES)}

\* C20: in every state the transitions reach, activeLensId is the id of a
\* catalog lens; and for an id that is not in the catalog the lens the
\* filter uses has an empty tag set, so that with the other controls as
\* they are the filter selects the events that pass the search step, the
\* custom tag if one is set, and the gate, with no lens restriction.
C20_LensFallbackAndCatalogIds ==
    /\ activeLensId \in CatalogIds
    /\ \A id \in LensIdInputs \ CatalogIds :
          /\ ActiveLens(id).tags = <<>>
          /\ \A e \in Elems(MOCK_EVENTS) :
                e \in Elems(Filtered(MOCK_EVENTS, density, searchQuery,
                                     ActiveLens(id), activeCustomTag))
                <=> /\ StatedSearchStep(e)
                    /\ activeCustomTag # null =>
                          activeCustomTag \in Elems(e.tags)
                    /\ StatedGate(e)

\* C20 witness: the lens 'culture', chosen in the menu, hides an event that
\* the filter shows when it is given the id "atlantis" in the same state.
C20_Witness ==
    /\ activeLensId = "culture"
    /\ ~showLensMenu
    /\ UnknownLensId \notin CatalogIds
    /\ \E e \in Elems(MOCK_EVENTS) :
          /\ ~IsVisible(e)
          /\ e \in Elems(Filtered(MOCK_EVENTS, density, searchQuery,
                                   ActiveLens(UnknownLensId),
                                   activeCustomTag))

-----------------------------------------------------------------------------
(* Properties of the selection.                                            *)

\* the ids of the visible events that are not ERAs
StatedShuffleTargets ==
    {e.id : e \in {v \in Elems(visibleEvents) : v.type # ERA}}

\* C21: a shuffle with no visible non-ERA event changes nothing; otherwise it
\* leaves the selection as it is and schedules one target, a non-ERA member
\* of the visible list of that moment; when the delay ends the selected
\* event becomes exactly the scheduled target, which is never an ERA.
C21_ShuffleSelect ==
    [][ /\ (handleShuffle /\ StatedShuffleTargets = {}) => UNCHANGED vars
        /\ (handleShuffle /\ StatedShuffleTargets # {}) =>
               /\ selectedEvent' = selectedEvent
               /\ \E t \in StatedShuffleTargets :
                      shuffleTimers' = Append(shuffleTimers, t)
        /\ ShuffleTimeout =>
               /\ selectedEvent' = Head(shuffleTimers)
               /\ \E e \in Elems(MOCK_EVENTS) :
                      e.id = selectedEvent' /\ e.type # ERA ]_vars

\* C21 witness: a shuffle at density 100 has scheduled the one visible
\* non-ERA event; nothing is selected yet.
C21_Witness ==
    /\ MOCK_EVENTS = <<Prehistory, Antiquity, Bronze>>
    /\ density = 100
    /\ Len(visibleEvents) = 3
    /\ shuffleTimers = <<"bronze">>
    /\ selectedEvent = null


-----------------------------------------------------------------------------
(* Properties of the requests of TimelineModal.                            *)

\* the event a text or an image was made from, when it names one
StatedMadeFrom(v) == IF Len(v) >= 2 THEN v[2] ELSE null

\* the texts and the image the modal shows
StatedShown ==
    {aiSummary, generatedImage} \cup
    {chatHistory[i].text :
        i \in {k \in 1..Len(chatHistory) : chatHistory[k].role = "model"}}

\* C22: no orphaned write: while an event is selected, the summary, the
\* generated image and the model's chat messages shown for it never hold a
\* result made from another event, whatever was requested before the
\* selection changed.
C22_NoOrphanedWrite ==
    selectedEvent # null =>
        \A v \in StatedShown : StatedMadeFrom(v) \in {null, selectedEvent}

\* the image calls outstanding
StatedImageCalls ==
    {i \in 1..Len(pending) : pending[i].fn = "generateEventImage"}

\* C23: overlapping image requests are neither deduplicated nor cancelled:
\* a press of "Generate Scene" or "Regenerate" adds a call to those
\* outstanding and leaves the stored image alone, and every resolution,
\* in whatever order the calls resolve, stores the result of the call that
\* resolved and leaves the other calls outstanding; so the stored image is
\* the result of the call that resolved last.
C23_LastResolutionWins ==
    [][ /\ handleGenerateImage =>
               /\ Cardinality(StatedImageCalls') =
                      Cardinality(StatedImageCalls) + 1
               /\ generatedImage' = generatedImage
        /\ GenerateImageResume =>
               \E i \in StatedImageCalls :
                   /\ pending' = RemoveAt(pending, i)
                   /\ generatedImage' =
                          generateEventImage(pending[i].event,
                                             pending[i].outcome).value ]_vars

\* "Regenerate" was pressed while an image call was outstanding: an image is
\* stored and two calls with different results are outstanding
C23_Witness ==
    /\ apiKey = "key"
    /\ selectedEvent = "fall"
    /\ generatedImage = <<"data:image/png;base64", "fall">>
    /\ Len(pending) = 2
    /\ StatedImageCalls = {1, 2}
    /\ pending[1].outcome = "text"
    /\ pending[2].outcome = "empty"

\* the promise of an outstanding call
StatedPromise(r) ==
    CASE r.fn = "getEventSummary"      -> getEventSummary(r.event, r.outcome)
      [] r.fn = "sendEventChatMessage" ->
             sendEventChatMessage(r.session, r.message, r.outcome)
      [] r.fn = "generateEventImage"   -> generateEventImage(r.event, r.outcome)

\* what a call yields when the provider fails: a fixed string, null for an
\* image
StatedFallback(fn) ==
    CASE fn = "getEventSummary"      ->
             <<"Unable to generate summary at this time.">>
      [] fn = "sendEventChatMessage" ->
             <<"Sorry, I encountered an error answering that.">>
      [] fn = "generateEventImage"   -> <<>>

\* C24: every AI request (summary, chat message, image) resolves with a
\* value and never with an exception, with or without a credential and
\* whether or not the provider fails: a failed summary or chat call yields
\* its fixed fallback string, a failed image call null; the handler that
\* resumes clears its loading flag, and while a loading flag is set a
\* handler that clears it can resume.
C24_RequestsResolveWithValue ==
    /\ [](\A i \in 1..Len(pending) :
            /\ StatedPromise(pending[i]).status = "fulfilled"
            /\ (pending[i].outcome = "throws" =>
                    StatedPromise(pending[i]).value =
                        StatedFallback(pending[i].fn))
            /\ (pending[i].fn # "generateEventImage" =>
                    StatedPromise(pending[i]).value # <<>>))
    /\ [][ /\ AiSummarizeResume => ~summaryLoading'
           /\ SendMessageResume => ~chatLoading'
           /\ GenerateImageResume => ~imageLoading' ]_vars
    /\ [](summaryLoading => ENABLED AiSummarizeResume)
    /\ [](chatLoading => ENABLED SendMessageResume)
    /\ [](imageLoading => ENABLED GenerateImageResume)

\* with a credential, a summary call whose provider call will throw is
\* outstanding and its loading flag is set
C24_Witness ==
    /\ apiKey = "key"
    /\ summaryLoading
    /\ \E i \in 1..Len(pending) :
          /\ pending[i].fn = "getEventSummary"
          /\ pending[i].outcome = "throws"

-----------------------------------------------------------------------------
(* The two variants of the filter.                                         *)

\* what the second variant shows for the controls of the state
StatedLinearView ==
    Elems(FilteredLinear(MOCK_EVENTS, density, searchQuery,
                         ActiveLens(activeLensId), activeCustomTag))

\* C25: the two cutoff derivations diverge: at density 30 the step table
\* gives cutoff 8 and the formula 10 - density/10 gives 7, so at density 30,
\* for the same dataset and controls, a non-ERA event of importance 7 that
\* passes the search and tag steps is shown by the second variant and not
\* by the first; the variants are not equivalent over density 0..100.
C25_VariantsDiverge ==
    /\ ImportanceThreshold(30) = 8
    /\ ImportanceThresholdLinearTenths(30) = 10 * 7
    /\ density = 30 =>
          \A e \in Elems(MOCK_EVENTS) :
              (/\ e.type # ERA
               /\ e.importance = 7
               /\ StatedSearchStep(e)
               /\ StatedTagStep(e)) =>
                  e \in StatedLinearView /\ ~IsVisible(e)
    /\ \E d \in 0..100 :
          ImportanceThresholdLinearTenths(d) # 10 * ImportanceThreshold(d)

\* C25 witness: at density 30 with no filter the importance-7 event is in the
\* second variant's view and not in the first's.
C25_Witness ==
    /\ density = 30
    /\ NoFilters
    /\ Founding \in StatedLinearView
    /\ ~IsVisible(Founding)

-----------------------------------------------------------------------------
(* Invariants of the App.                                                  *)

\* C26: a custom tag is set only while the active lens is 'all': only the
\* selection of a custom tag sets a tag, and it forces the lens to 'all';
\* only the selection of a lens, the selection of a custom tag and reset
\* change the lens, and the first and the last clear the tag.
C26_TagOnlyUnderAllLens ==
    /\ [](activeCustomTag # null => activeLensId = "all")
    /\ [][ /\ (activeCustomTag' # activeCustomTag /\ activeCustomTag' # null)
                  => TagSuggestionClick
           /\ activeLensId' # activeLensId
                  => (LensClick \/ TagSuggestionClick \/ handleReset)
           /\ activeCustomTag' # null => ~(LensClick \/ handleReset) ]_vars

\* C26 witness: the custom tag 'Rome' is set, the lens is 'all', at density 0.
C26_Witness ==
    /\ activeCustomTag = "Rome"
    /\ activeLensId = "all"
    /\ density = 0

\* C27: the selected event is null or the id of an event of the dataset
\* whose type is not ERA.
C27_SelectionIsNonEraEvent ==
    selectedEvent # null =>
        \E e \in Elems(MOCK_EVENTS) : e.id = selectedEvent /\ e.type # ERA

\* C27 witness: the sub-event 'sack' is selected at density 75, where its
\* card is shown.
C27_Witness ==
    /\ selectedEvent = "sack"
    /\ density = 75
    /\ IsVisible(Sack)
    /\ shuffleTimers = <<>>

\* C28: a non-null selected event is a member of the visible list computed
\* from the current controls, and once the detail view is closed the
\* selection stays null until the user selects or shuffles again: no
\* delayed selection of an earlier shuffle is left to fire after the close.
C28_SelectionVisibleAndStaysClosed ==
    /\ [](selectedEvent # null =>
            \E i \in 1..Len(visibleEvents) :
                visibleEvents[i].id = selectedEvent)
    /\ [][ModalClose => shuffleTimers' = <<>>]_vars

-----------------------------------------------------------------------------
(* Properties of the loading flag and of the chat history.                 *)

\* C29: the image loading flag is true in every state in which an image
\* call is outstanding and false only when none is, also when "Regenerate"
\* starts a second call before the first has resolved.
C29_ImageLoadingIffOutstanding ==
    imageLoading <=> StatedImageCalls # {}

\* C30: while an event is selected, the chat history starts with the greeting
\* for that event and then alternates user message, model reply; a user
\* message without its reply is the last one and its reply is outstanding,
\* also after the selected event has changed while a reply was outstanding.
C30_ChatAlternates ==
    selectedEvent # null =>
        /\ Len(chatHistory) >= 1
        /\ chatHistory[1] = Greeting(selectedEvent)
        /\ \A i \in 2..Len(chatHistory) :
              chatHistory[i].role = IF i % 2 = 0 THEN "user" ELSE "model"
        /\ Len(chatHistory) % 2 = 0 =>
              /\ chatLoading
              /\ \E i \in 1..Len(pending) :
                    /\ pending[i].fn = "sendEventChatMessage"
                    /\ pending[i].message = chatHistory[Len(chatHistory)].text
====
